---- MODULE Spec2Model ----
(***************************************************************************)
(* SwiftNote: the notes service (src/services/notes.ts) against the notes  *)
(* table of the persistence service.                                       *)
(*                                                                         *)
(* The table is the one the project README creates (it is carried at the   *)
(* end of src/app/(tabs)/_layout.tsx): id is a generated key, created_at   *)
(* and updated_at default to NOW() at insert and no trigger refreshes      *)
(* them, and the row-level policies restrict SELECT and UPDATE to rows     *)
(* whose deleted_at is null.  `policies' tells whether the deployment      *)
(* carries those row-level policies.                                       *)
(*                                                                         *)
(* Optional values are sets: {} is null/undefined, {v} is the value v.     *)
(* Text is a sequence of characters, so trim() is computed; a tag is text  *)
(* and a tag list is a sequence of tags.                                   *)
(* The filter .is('deleted_at', 'not.null') is read as the code comments   *)
(* read it: deleted_at is not null.                                        *)
(*                                                                         *)
(* The screens that call the service are modelled next to it, each with    *)
(* its own specification: the pipeline of the home screen and its fetches, *)
(* overlapping calls of the service, the forms that create and edit a note *)
(* with their tags, the haptics preference, and the filter modal.          *)
(***************************************************************************)
EXTENDS Integers, Sequences, FiniteSets, TLC

\* ---------------------------------------------------------------- bounds
MaxIds == 2
MaxTime == 1
\* the most notes a fetch of the home screen returns
MaxNotes == 2
\* the most fetches the home screen starts
MaxFetches == 2
\* the most calls of the notes service that overlap
MaxInFlight == 2
\* the most saves one edit screen starts
MaxSaves == 2
\* the most starts of the app
MaxStarts == 2

\* ---------------------------------------------------------------- inputs
Ids == 1..MaxIds
\* the id a caller passes: 0 stands for the empty string (falsy id)
IdInputs == 0..MaxIds

\* what the callers pass to createNote: a title that trims to empty, a plain
\* note without tags, and a note whose text needs trimming
CreateInputs ==
    {[title |-> <<" ">>, body |-> <<>>, tags |-> {}],
     [title |-> <<"a">>, body |-> <<>>, tags |-> {}],
     [title |-> <<" ", "b", " ">>, body |-> <<"a", " ">>, tags |-> {<<<<"x">>>>}]}

\* what the callers pass to updateNote as patch; a field that is {} is
\* undefined, and patch.tags, when defined, is null ({}) or a list.  A blank
\* title alone, and the full patches the edit screens send (title, body and
\* tags together).
Patches ==
    {[title |-> {<<" ">>}, body |-> {}, tags |-> {}],
     [title |-> {<<"a">>}, body |-> {<<>>}, tags |-> {{}}],
     [title |-> {<<" ", "b", " ">>}, body |-> {<<"a", " ">>},
      tags |-> {{<<<<"x">>>>}}]}

VARIABLES store, nextId, now, policies, last, purged

\* the home screen: the notes it fetched, the search text, the applied
\* filters, the list it shows, and the wall clock (in hours)
VARIABLES notes, searchQuery, filters, filteredNotes, wall

\* the fetches of the home screen: the requests whose answer is on its way,
\* the number of fetches started, whether the screen has the focus, and its
\* loading flag
VARIABLES flights, issued, focused, loading

service == <<store, nextId, now, policies, last, purged>>
home == <<notes, searchQuery, filters, filteredNotes, wall>>
\* calls of the notes service that overlap: the requests on their way to
\* the persistence service, and the requests it has handled, in that order
VARIABLES inflight, landed

\* a screen with a form: which one it is, whether it is on the stack, the
\* note it loaded (null before), the title typed, the two flags, whether
\* the unsaved-changes dialog is open, the updateNote calls under way and
\* the number of saves started
VARIABLES screen, shown, noteLoaded, titleTyped, hasUnsavedChanges, saving,
          dialog, saveCalls, saves
\* the tags of the forms: the text of the tags field of CreateNoteScreen
\* and EditNoteScreen, and the tag list and the tag field of NoteEditor
VARIABLES tagsInput, editorTags, tagInput

fetching == <<flights, issued, focused, loading>>
wire == <<inflight, landed>>
\* haptics: the stored preference 'hapticEnabled' (null before it is
\* written), the enabled state and the hasLoaded ref of the useHaptics
\* instance of each tab screen, the switch of the Settings screen and
\* whether its effect has read the preference, the tab that has the focus,
\* the tab screens mounted, the platform, whether the app runs, the number
\* of its starts, and whether the last step triggered the device haptics
VARIABLES storage, enabled, hasLoaded, hapticFeedback, prefsLoaded, tab,
          mountedTabs, platform, running, starts, fired

\* the filter modal of the home screen: whether it is visible, and its
\* local filters
VARIABLES showFilterModal, localFilters

tagging == <<tagsInput, editorTags, tagInput>>
modal == <<showFilterModal, localFilters>>
haptic == <<storage, enabled, hasLoaded, hapticFeedback, prefsLoaded, tab,
            mountedTabs, platform, running, starts, fired>>
editing == <<screen, shown, noteLoaded, titleTyped, hasUnsavedChanges,
             saving, dialog, saveCalls, saves, tagging>>
\* what the notes service and the pipeline of the home screen leave as it is
rest == <<fetching, wire, editing, haptic, modal>>
\* rest without the group named
restButFetching == <<wire, editing, haptic, modal>>
restButWire == <<fetching, editing, haptic, modal>>
restButEditing == <<fetching, wire, haptic, modal>>
restButHaptic == <<fetching, wire, editing, modal>>
restButModal == <<fetching, wire, editing, haptic>>
vars == <<service, home, rest>>

\* ---------------------------------------------------------------- text
IsSpace(c) == c = " "

RECURSIVE TrimStart(_)
TrimStart(s) ==
    IF s = <<>> THEN <<>>
    ELSE IF IsSpace(Head(s)) THEN TrimStart(Tail(s)) ELSE s

RECURSIVE TrimEnd(_)
TrimEnd(s) ==
    IF s = <<>> THEN <<>>
    ELSE IF IsSpace(s[Len(s)]) THEN TrimEnd(SubSeq(s, 1, Len(s) - 1)) ELSE s

\* String.prototype.trim
Trim(s) == TrimEnd(TrimStart(s))

\* ---------------------------------------------------------------- errors
NoError == "none"
\* messages the service throws itself
NoteNotFound == "Note not found"
IdRequired == "Note ID is required"
TitleRequired == "Title is required"
TitleEmpty == "Title cannot be empty"
\* error.message of the persistence client, named by its cause
NoRows == "PGRST116"
PolicyViolation == "42501"
Unreachable == "network"
\* the TypeError of calling a binding that the imported module does not export
NotAFunction == "deleteAllNotes is not a function"

\* the taxonomy of spec section 7, read off the thrown message
IsNotFoundError(e) == e = NoteNotFound
IsValidationError(e) == e \in {IdRequired, TitleRequired, TitleEmpty}
IsStoreError(e) == e \in {NoRows, PolicyViolation, Unreachable}

\* ---------------------------------------------------------------- table
IsActive(r) == r.deleted_at = {}
IsDeleted(r) == r.deleted_at # {}

\* rows a SELECT can see: policy "Allow anyone to view notes"
Visible(st, pol) == {i \in DOMAIN st : pol => IsActive(st[i])}

\* rows an UPDATE can touch: policy "Allow anyone to update notes"
\* (an UPDATE with a WHERE clause also needs the row to be selectable)
Updatable(st, pol) == {i \in Visible(st, pol) : pol => IsActive(st[i])}

\* a row as the client receives it
Row(st, i) == [id |-> i] @@ st[i]

\* the outcome of an operation of the service once its request was sent
Outcome(e, st, rows) == [err |-> e, st |-> st, rows |-> rows, sent |-> TRUE]

\* the service throws before it builds any request
Rejected(e, st) == [err |-> e, st |-> st, rows |-> {}, sent |-> FALSE]

\* .single(): exactly one row or error PGRST116
Single(ids) == Cardinality(ids) = 1

\* variant: the write of deleted_at also refreshes updated_at
SetDeletedAtTouching(st, pol, targets, d) ==
    IF pol /\ targets # {} /\ d # {}
    THEN Outcome(PolicyViolation, st, {})
    ELSE Outcome(NoError,
                 [i \in DOMAIN st |->
                     IF i \in targets
                     THEN [st[i] EXCEPT !.deleted_at = d,
                                        !.updated_at = st[i].updated_at + 1]
                     ELSE st[i]],
                 targets)

\* UPDATE ... SET deleted_at = d WHERE id = i AND <filter on deleted_at>.
\* With the policies on, the new row has to pass the UPDATE policy as well
\* (a policy without WITH CHECK uses its USING expression for both), else
\* the command aborts with error 42501.
SetDeletedAt(st, pol, targets, d) ==
    IF pol /\ targets # {} /\ d # {}
    THEN Outcome(PolicyViolation, st, {})
    ELSE Outcome(NoError,
                 [i \in DOMAIN st |->
                     IF i \in targets THEN [st[i] EXCEPT !.deleted_at = d]
                     ELSE st[i]],
                 targets)

\* ---------------------------------------------------------------- home
\* useState<FilterOptions> of the home screen
InitialFilters ==
    [sortBy |-> "recent", dateFilter |-> "all", selectedTags |-> <<>>,
     withTagsOnly |-> FALSE, longNotesOnly |-> FALSE]

\* elements of a list
Range(s) == {s[k] : k \in 1..Len(s)}

\* Array.prototype.filter with the set of elements that pass
Filter(s, pass) == SelectSeq(s, LAMBDA x : x \in pass)

\* String.prototype.toLowerCase on the letters in use
LowerChar(c) ==
    IF c = "A" THEN "a" ELSE IF c = "B" THEN "b" ELSE IF c = "C" THEN "c"
    ELSE c

toLowerCase(s) == [k \in 1..Len(s) |-> LowerChar(s[k])]

\* String.prototype.includes
includes(s, q) ==
    \E k \in 0..(Len(s) - Len(q)) : SubSeq(s, k + 1, k + Len(q)) = q

\* the collation order of the characters in use, letters without their case
Collation == <<" ", "a", "b", "c", "x", "y", "z">>

CollationRank(c) ==
    CHOOSE k \in 1..Len(Collation) : Collation[k] = LowerChar(c)

\* -1, 0 or 1: the first difference in the letters decides
RECURSIVE ComparePrimary(_, _)
ComparePrimary(a, b) ==
    IF a = <<>> /\ b = <<>> THEN 0
    ELSE IF a = <<>> THEN -1
    ELSE IF b = <<>> THEN 1
    ELSE IF CollationRank(Head(a)) < CollationRank(Head(b)) THEN -1
    ELSE IF CollationRank(Head(a)) > CollationRank(Head(b)) THEN 1
    ELSE ComparePrimary(Tail(a), Tail(b))

\* between texts with the same letters the first difference of case
\* decides, lower case first
RECURSIVE CompareCase(_, _)
CompareCase(a, b) ==
    IF a = <<>> \/ b = <<>> THEN 0
    ELSE IF Head(a) = Head(b) THEN CompareCase(Tail(a), Tail(b))
    ELSE IF Head(a) = LowerChar(Head(a)) THEN -1 ELSE 1

\* String.prototype.localeCompare
localeCompare(a, b) ==
    IF ComparePrimary(a, b) # 0 THEN ComparePrimary(a, b)
    ELSE CompareCase(a, b)

\* a timestamp that new Date() cannot parse: getTime() is NaN
InvalidDate == -1

\* x >= y on getTime() values: false when one of them is NaN
AtLeast(x, y) == x # InvalidDate /\ y # InvalidDate /\ x >= y

\* x - y on getTime() values; sort takes a comparator result of NaN as +0
Minus(x, y) == IF x = InvalidDate \/ y = InvalidDate THEN 0 ELSE x - y

\* the comparator sortNotes passes to sort: negative when a goes first
Comparator(sortBy, a, b) ==
    IF sortBy \in {"recent", "mostEdited"}
    THEN Minus(b.updated_at, a.updated_at)
    ELSE IF sortBy = "alphabetical" THEN localeCompare(a.title, b.title)
    ELSE IF sortBy = "oldest" THEN Minus(a.created_at, b.created_at)
    ELSE 0

\* variant: an element goes in front of the elements it compares equal to
InsertSortedFirst(sorted, x, sortBy) ==
    LET after == {k \in 1..Len(sorted) : Comparator(sortBy, sorted[k], x) >= 0}
        p == IF after = {} THEN Len(sorted) + 1
             ELSE CHOOSE k \in after : \A j \in after : k <= j
    IN SubSeq(sorted, 1, p - 1) \o <<x>> \o SubSeq(sorted, p, Len(sorted))

\* one step of a stable sort: x goes behind every element that does not
\* compare greater
InsertSorted(sorted, x, sortBy) ==
    LET after == {k \in 1..Len(sorted) : Comparator(sortBy, sorted[k], x) > 0}
        p == IF after = {} THEN Len(sorted) + 1
             ELSE CHOOSE k \in after : \A j \in after : k <= j
    IN SubSeq(sorted, 1, p - 1) \o <<x>> \o SubSeq(sorted, p, Len(sorted))

\* Array.prototype.sort with the comparator of sortBy (a stable sort)
RECURSIVE ArraySort(_, _)
ArraySort(s, sortBy) ==
    IF s = <<>> THEN <<>>
    ELSE InsertSorted(ArraySort(SubSeq(s, 1, Len(s) - 1), sortBy),
                      s[Len(s)], sortBy)

\* the comparator of sortBy is a consistent comparator on the elements of s
ConsistentComparator(s, sortBy) ==
    \A a, b, c \in Range(s) :
       /\ (Comparator(sortBy, a, b) = 0 /\ Comparator(sortBy, b, c) = 0)
             => Comparator(sortBy, a, c) = 0
       /\ (Comparator(sortBy, a, b) < 0 /\ Comparator(sortBy, b, c) < 0)
             => Comparator(sortBy, a, c) < 0
       /\ (Comparator(sortBy, a, b) < 0) <=> (Comparator(sortBy, b, a) > 0)

\* the lists with the elements of s, each once
Reorderings(s) ==
    {[k \in 1..Len(s) |-> s[f[k]]] :
        f \in {g \in [1..Len(s) -> 1..Len(s)] :
                  \A a, b \in 1..Len(s) : a # b => g[a] # g[b]}}

\* what sort can leave behind: the stable order when the comparator is
\* consistent; otherwise the order is left to the engine, which ends with
\* some order whose neighbours the comparator does not find descending
\* (an engine that sees no descending neighbours leaves the list as it is)
SortOutcomes(s, sortBy) ==
    IF sortBy \notin {"recent", "alphabetical", "mostEdited", "oldest"}
    THEN {s}
    ELSE IF ConsistentComparator(s, sortBy) THEN {ArraySort(s, sortBy)}
    ELSE {q \in Reorderings(s) :
             \A k \in 1..(Len(q) - 1) : Comparator(sortBy, q[k], q[k + 1]) <= 0}

sortNotes(notesToSort, sortBy) ==
    IF sortBy \in {"recent", "alphabetical", "mostEdited", "oldest"}
    THEN ArraySort(notesToSort, sortBy)
    ELSE notesToSort

\* the clock counts hours
HoursPerDay == 24
WeekDays == 7
MonthDays == 30

\* new Date(now.getFullYear(), now.getMonth(), now.getDate()): local
\* midnight of the day of w
Today(w) == w - (w % HoursPerDay)

\* variant: the week and the month are counted back from the current time
filterByDateFromNow(notesToFilter, dateFilter, w) ==
    IF dateFilter = "all" THEN notesToFilter
    ELSE Filter(notesToFilter,
                {note \in Range(notesToFilter) :
                    IF dateFilter = "today" THEN AtLeast(note.created_at, Today(w))
                    ELSE IF dateFilter = "thisWeek"
                    THEN AtLeast(note.created_at, w - WeekDays * HoursPerDay)
                    ELSE IF dateFilter = "thisMonth"
                    THEN AtLeast(note.created_at, w - MonthDays * HoursPerDay)
                    ELSE TRUE})

\* w: the clock as new Date() reads it
filterByDate(notesToFilter, dateFilter, w) ==
    IF dateFilter = "all" THEN notesToFilter
    ELSE Filter(notesToFilter,
                {note \in Range(notesToFilter) :
                    IF dateFilter = "today" THEN AtLeast(note.created_at, Today(w))
                    ELSE IF dateFilter = "thisWeek"
                    THEN AtLeast(note.created_at, Today(w) - WeekDays * HoursPerDay)
                    ELSE IF dateFilter = "thisMonth"
                    THEN AtLeast(note.created_at, Today(w) - MonthDays * HoursPerDay)
                    ELSE TRUE})

\* note.tags && Array.isArray(note.tags): the tag list, empty when null
TagsOf(note) == IF note.tags = {} THEN <<>> ELSE CHOOSE l \in note.tags : TRUE

\* variant: the search compares the text as typed
MatchesSearchCased(note, query) ==
    \/ includes(note.title, query)
    \/ note.body # <<>> /\ includes(note.body, query)

\* the predicate of the search stage
MatchesSearch(note, query) ==
    \/ includes(toLowerCase(note.title), toLowerCase(query))
    \/ note.body # <<>> /\ includes(toLowerCase(note.body), toLowerCase(query))

\* variant: a note has to carry every selected tag
MatchesTagsEvery(note, selectedTags) ==
    /\ note.tags # {}
    /\ \A k \in 1..Len(selectedTags) : selectedTags[k] \in Range(TagsOf(note))

\* the predicate of the tag stage: selectedTags.some(tag =>
\* note.tags.includes(tag))
MatchesTags(note, selectedTags) ==
    /\ note.tags # {}
    /\ \E k \in 1..Len(selectedTags) : selectedTags[k] \in Range(TagsOf(note))

\* body.length >= 100
LongNoteLength == 100

\* the stages of applyFiltersAndSort before the sort
Searched(ns, query) ==
    IF Trim(query) # <<>>
    THEN Filter(ns, {note \in Range(ns) : MatchesSearch(note, query)})
    ELSE ns

Tagged(ns, f) ==
    IF Len(f.selectedTags) > 0
    THEN Filter(ns, {note \in Range(ns) : MatchesTags(note, f.selectedTags)})
    ELSE ns

\* variant: when no note of the list carries a tag the stage keeps the list
WithTagsOnlyOrAll(ns, f) ==
    IF f.withTagsOnly /\ \E k \in 1..Len(ns) : Len(TagsOf(ns[k])) > 0
    THEN Filter(ns, {note \in Range(ns) : Len(TagsOf(note)) > 0})
    ELSE ns

WithTagsOnly(ns, f) ==
    IF f.withTagsOnly
    THEN Filter(ns, {note \in Range(ns) : Len(TagsOf(note)) > 0})
    ELSE ns

LongNotesOnly(ns, f) ==
    IF f.longNotesOnly
    THEN Filter(ns, {note \in Range(ns) : Len(note.body) >= LongNoteLength})
    ELSE ns

\* variant: a run filters the list that is shown, not the fetched notes
applyFiltersAndSortOfShown(ns, query, f, w) ==
    sortNotes(
        LongNotesOnly(
            WithTagsOnly(
                Tagged(filterByDate(Searched(filteredNotes, query),
                                    f.dateFilter, w), f),
                f),
            f),
        f.sortBy)

\* the list the home screen shows for notes ns, search text query, filters
\* f and clock w
applyFiltersAndSort(ns, query, f, w) ==
    sortNotes(
        LongNotesOnly(
            WithTagsOnly(
                Tagged(filterByDate(Searched(ns, query), f.dateFilter, w), f),
                f),
            f),
        f.sortBy)

\* the filter stages by name, and one stage applied to a list
StageNames == {"search", "date", "tags", "withTagsOnly", "longNotesOnly"}

Stage(name, ns, query, f, w) ==
    CASE name = "search" -> Searched(ns, query)
      [] name = "date" -> filterByDate(ns, f.dateFilter, w)
      [] name = "tags" -> Tagged(ns, f)
      [] name = "withTagsOnly" -> WithTagsOnly(ns, f)
      [] name = "longNotesOnly" -> LongNotesOnly(ns, f)

\* the stages applied in the order given
RECURSIVE ApplyStages(_, _, _, _, _)
ApplyStages(order, ns, query, f, w) ==
    IF order = <<>> THEN ns
    ELSE ApplyStages(Tail(order), Stage(Head(order), ns, query, f, w),
                     query, f, w)

\* every order of the five stages
StageOrders ==
    {order \in [1..Cardinality(StageNames) -> StageNames] :
        \A a, b \in 1..Cardinality(StageNames) :
           a # b => order[a] # order[b]}

\* the stages in the order of the code
StagesInOrder == <<"search", "date", "tags", "withTagsOnly", "longNotesOnly">>

\* the lists a run can show when timestamps may be malformed
applyFiltersAndSortOutcomes(ns, query, f, w) ==
    SortOutcomes(ApplyStages(StagesInOrder, ns, query, f, w), f.sortBy)

\* one more use of a tag
Bump(tagUsage, tag) ==
    IF tag \in DOMAIN tagUsage THEN [tagUsage EXCEPT ![tag] = @ + 1]
    ELSE (tag :> 1) @@ tagUsage

\* note.tags.forEach(tag => tagUsage[tag] = (tagUsage[tag] || 0) + 1)
RECURSIVE BumpAll(_, _)
BumpAll(tagUsage, tags) ==
    IF tags = <<>> THEN tagUsage
    ELSE BumpAll(Bump(tagUsage, Head(tags)), Tail(tags))

\* the tag counts the filter modal shows
RECURSIVE calculateTagUsage(_)
calculateTagUsage(ns) ==
    IF ns = <<>> THEN <<>>
    ELSE BumpAll(calculateTagUsage(SubSeq(ns, 1, Len(ns) - 1)),
                 TagsOf(ns[Len(ns)]))

\* ---------------------------------------------------------------- service
\* variant: listNotes without its deleted_at filter
listNotesIdsUnfiltered(st, pol) == Visible(st, pol)

\* ids of listNotes' result, before ordering
listNotesIds(st, pol) == {i \in Visible(st, pol) : IsActive(st[i])}

\* ids of listDeletedNotes' result, before ordering
listDeletedNotesIds(st, pol) == {i \in Visible(st, pol) : IsDeleted(st[i])}

\* the orderings of a set of ids that are descending in key, a function of
\* the id (ties: any order)
OrderedDesc(ids, key) ==
    {s \in [1..Cardinality(ids) -> ids] :
        /\ \A a, b \in 1..Cardinality(ids) : a # b => s[a] # s[b]
        /\ \A a, b \in 1..Cardinality(ids) : a < b => key[s[a]] >= key[s[b]]}

\* variant: getNote without its deleted_at filter
getNoteOutcomeUnfiltered(st, pol, id) ==
    IF id = 0 THEN Rejected(IdRequired, st)
    ELSE LET found == {i \in Visible(st, pol) : i = id}
         IN IF Single(found) THEN Outcome(NoError, st, found)
            ELSE Outcome(NoteNotFound, st, {})

getNoteOutcome(st, pol, id) ==
    IF id = 0 THEN Rejected(IdRequired, st)
    ELSE LET found == {i \in Visible(st, pol) : i = id /\ IsActive(st[i])}
         IN IF Single(found) THEN Outcome(NoError, st, found)
            ELSE Outcome(NoteNotFound, st, {})

\* variant: createNote checks the title before trimming it
createNoteOutcomeUntrimmedCheck(st, id, t, input) ==
    LET payload == [title |-> Trim(input.title), body |-> Trim(input.body),
                    tags |-> input.tags, deleted_at |-> {}]
    IN IF input.title = <<>> THEN Rejected(TitleRequired, st)
       ELSE Outcome(NoError,
                    (id :> (payload @@ [created_at |-> t, updated_at |-> t]))
                        @@ st,
                    {id})

\* variant: createNote sends the body as typed
createNoteOutcomeRawBody(st, id, t, input) ==
    LET payload == [title |-> Trim(input.title), body |-> input.body,
                    tags |-> input.tags, deleted_at |-> {}]
    IN IF payload.title = <<>> THEN Rejected(TitleRequired, st)
       ELSE Outcome(NoError,
                    (id :> (payload @@ [created_at |-> t, updated_at |-> t]))
                        @@ st,
                    {id})

\* title, body: trimmed text; tags: null or a list
createNoteOutcome(st, id, t, input) ==
    LET payload == [title |-> Trim(input.title), body |-> Trim(input.body),
                    tags |-> input.tags, deleted_at |-> {}]
    IN IF payload.title = <<>> THEN Rejected(TitleRequired, st)
       ELSE Outcome(NoError,
                    (id :> (payload @@ [created_at |-> t, updated_at |-> t]))
                        @@ st,
                    {id})

\* variant: a field the patch leaves out is written as empty
ApplyPatchClearing(r, patch) ==
    [r EXCEPT !.title = IF patch.title = {} THEN @
                        ELSE Trim(CHOOSE x \in patch.title : TRUE),
              !.body = IF patch.body = {} THEN <<>>
                       ELSE Trim(CHOOSE x \in patch.body : TRUE),
              !.tags = IF patch.tags = {} THEN {}
                       ELSE CHOOSE x \in patch.tags : TRUE]

\* patch fields are optional: {} is undefined
ApplyPatch(r, patch) ==
    [r EXCEPT !.title = IF patch.title = {} THEN @
                        ELSE Trim(CHOOSE x \in patch.title : TRUE),
              !.body = IF patch.body = {} THEN @
                       ELSE Trim(CHOOSE x \in patch.body : TRUE),
              !.tags = IF patch.tags = {} THEN @
                       ELSE CHOOSE x \in patch.tags : TRUE]

\* variant: updateNote without its deleted_at filter
updateNoteOutcomeUnfiltered(st, pol, id, patch) ==
    IF id = 0 THEN Rejected(IdRequired, st)
    ELSE IF patch.title # {} /\ Trim(CHOOSE x \in patch.title : TRUE) = <<>>
    THEN Rejected(TitleEmpty, st)
    ELSE LET targets == {i \in Updatable(st, pol) : i = id}
         IN IF Single(targets)
            THEN Outcome(NoError,
                         [i \in DOMAIN st |->
                             IF i \in targets THEN ApplyPatch(st[i], patch)
                             ELSE st[i]],
                         targets)
            ELSE Outcome(NoteNotFound, st, {})

updateNoteOutcome(st, pol, id, patch) ==
    IF id = 0 THEN Rejected(IdRequired, st)
    ELSE IF patch.title # {} /\ Trim(CHOOSE x \in patch.title : TRUE) = <<>>
    THEN Rejected(TitleEmpty, st)
    ELSE LET targets == {i \in Updatable(st, pol) : i = id /\ IsActive(st[i])}
         IN IF Single(targets)
            THEN Outcome(NoError,
                         [i \in DOMAIN st |->
                             IF i \in targets THEN ApplyPatch(st[i], patch)
                             ELSE st[i]],
                         targets)
            ELSE Outcome(NoteNotFound, st, {})

deleteNoteOutcome(st, pol, id, t) ==
    IF id = 0 THEN Rejected(IdRequired, st)
    ELSE LET targets == {i \in Updatable(st, pol) : i = id /\ IsActive(st[i])}
             upd == SetDeletedAt(st, pol, targets, {t})
         IN \* no .select(): zero rows updated is not an error
            Outcome(upd.err, upd.st, {})

\* variant: the permanent delete only hides the row
permanentlyDeleteNoteOutcomeSoft(st, pol, id) ==
    IF id = 0 THEN Rejected(IdRequired, st)
    ELSE LET targets == {i \in Visible(st, pol) : i = id}
         IN Outcome(NoError,
                    [i \in DOMAIN st |->
                        IF i \in targets
                        THEN [st[i] EXCEPT !.deleted_at = {st[i].created_at}]
                        ELSE st[i]],
                    {})

permanentlyDeleteNoteOutcome(st, pol, id) ==
    IF id = 0 THEN Rejected(IdRequired, st)
    ELSE LET targets == {i \in Visible(st, pol) : i = id}
         IN Outcome(NoError, [i \in DOMAIN st \ targets |-> st[i]], {})

restoreNoteOutcome(st, pol, id) ==
    IF id = 0 THEN Rejected(IdRequired, st)
    ELSE LET targets == {i \in Updatable(st, pol) : i = id /\ IsDeleted(st[i])}
             upd == SetDeletedAt(st, pol, targets, {})
         IN IF upd.err # NoError THEN upd
            ELSE IF Single(upd.rows) THEN upd
            \* error.message is passed on, PGRST116 is not mapped
            ELSE Outcome(NoRows, st, {})

\* ---------------------------------------------------------------- state
NoRowsReturned == <<>>

\* the home screen as it is mounted: nothing fetched, nothing typed, the
\* initial filters
HomeMounted ==
    /\ notes = <<>>
    /\ searchQuery = <<>>
    /\ filters = InitialFilters
    /\ filteredNotes = <<>>

HomeIdle == HomeMounted /\ wall = 0

\* the home screen before it has the focus: no fetch started, loading shown
FetchingIdle ==
    /\ flights = {}
    /\ issued = 0
    /\ focused = FALSE
    /\ loading = TRUE

\* the screens and requests outside the notes service and the pipeline, at
\* rest
\* no call of the notes service is under way
WireIdle ==
    /\ inflight = {}
    /\ landed = <<>>

\* no edit screen is open
EditingIdle ==
    /\ screen = "none"
    /\ shown = FALSE
    /\ noteLoaded = {}
    /\ titleTyped = <<>>
    /\ hasUnsavedChanges = FALSE
    /\ saving = FALSE
    /\ dialog = FALSE
    /\ saveCalls = {}
    /\ saves = 0
    /\ tagsInput = <<>>
    /\ editorTags = <<>>
    /\ tagInput = <<>>

\* the tab screens, each with its own useHaptics()
TabScreens == {"index", "settings"}

\* the app has not been started, nothing is stored
HapticIdle ==
    /\ storage = {}
    /\ enabled = [h \in TabScreens |-> TRUE]
    /\ hasLoaded = [h \in TabScreens |-> FALSE]
    /\ hapticFeedback = TRUE
    /\ prefsLoaded = FALSE
    /\ tab = "index"
    /\ mountedTabs = {}
    /\ platform = "none"
    /\ running = FALSE
    /\ starts = 0
    /\ fired = FALSE

\* the filter modal is mounted and hidden
ModalIdle ==
    /\ showFilterModal = FALSE
    /\ localFilters = InitialFilters

RestIdle ==
    FetchingIdle /\ WireIdle /\ EditingIdle /\ HapticIdle /\ ModalIdle

Result(op, id, e, rows) == [op |-> op, id |-> id, err |-> e, rows |-> rows]

RowsOf(st, s) == [k \in 1..Len(s) |-> Row(st, s[k])]

\* a set of at most one id as a sequence
AsSeq(ids) == IF ids = {} THEN <<>> ELSE <<CHOOSE i \in ids : TRUE>>

\* the table as it is created, before any request
EmptyTable ==
    /\ store = <<>>
    /\ nextId = 1
    /\ now = 0
    /\ last = Result("init", 0, NoError, NoRowsReturned)
    /\ purged = {}

Init ==
    /\ EmptyTable
    /\ policies \in BOOLEAN
    /\ HomeIdle
    /\ RestIdle

\* the persistence service does not answer: the operation throws and the
\* request reaches no row
Fails(op) ==
    /\ last' = Result(op, 0, Unreachable, NoRowsReturned)
    /\ UNCHANGED <<store, nextId, now, policies, home, rest, purged>>

ListNotes ==
    \/ Fails("listNotes")
    \/ \E s \in OrderedDesc(listNotesIds(store, policies),
                            [i \in DOMAIN store |-> store[i].updated_at]) :
          /\ last' = Result("listNotes", 0, NoError, RowsOf(store, s))
          /\ UNCHANGED <<store, nextId, now, policies, home, rest, purged>>

ListDeletedNotes ==
    \/ Fails("listDeletedNotes")
    \/ \E s \in OrderedDesc(listDeletedNotesIds(store, policies),
                            [i \in listDeletedNotesIds(store, policies) |->
                                CHOOSE d \in store[i].deleted_at : TRUE]) :
          /\ last' = Result("listDeletedNotes", 0, NoError, RowsOf(store, s))
          /\ UNCHANGED <<store, nextId, now, policies, home, rest, purged>>

GetNote ==
    \E id \in IdInputs :
       \/ id # 0 /\ Fails("getNote")
       \/ LET out == getNoteOutcome(store, policies, id)
          IN /\ last' = Result("getNote", id, out.err,
                               RowsOf(store, AsSeq(out.rows)))
             /\ UNCHANGED <<store, nextId, now, policies, home, rest, purged>>

\* the clock is read when a row is stamped (NOW() at insert, new Date() at
\* the soft delete): since the last stamp, time has passed or it has not
Elapsed(t) == {u \in {t, t + 1} : u <= MaxTime}

CreateNote ==
    \/ Fails("createNote")
    \/ \E input \in CreateInputs, t \in Elapsed(now) :
          /\ nextId <= MaxIds
          /\ LET out == createNoteOutcome(store, nextId, t, input)
             IN /\ store' = out.st
                /\ now' = IF out.st # store THEN t ELSE now
                /\ last' = Result("createNote",
                                  IF out.err = NoError THEN nextId ELSE 0,
                                  out.err,
                                  RowsOf(out.st, AsSeq(out.rows)))
                /\ nextId' = IF out.err = NoError THEN nextId + 1 ELSE nextId
                /\ UNCHANGED <<policies, home, rest, purged>>

UpdateNote ==
    \E id \in IdInputs :
       \/ id # 0 /\ Fails("updateNote")
       \/ \E patch \in Patches :
             LET out == updateNoteOutcome(store, policies, id, patch)
             IN /\ store' = out.st
                /\ last' = Result("updateNote", id, out.err,
                                  RowsOf(out.st, AsSeq(out.rows)))
                /\ UNCHANGED <<nextId, now, policies, home, rest, purged>>

DeleteNote ==
    \E id \in IdInputs :
       \/ id # 0 /\ Fails("deleteNote")
       \/ \E t \in Elapsed(now) :
             LET out == deleteNoteOutcome(store, policies, id, t)
             IN /\ store' = out.st
                /\ now' = IF out.st # store THEN t ELSE now
                /\ last' = Result("deleteNote", id, out.err, NoRowsReturned)
                /\ UNCHANGED <<nextId, policies, home, rest, purged>>

PermanentlyDeleteNote ==
    \E id \in IdInputs :
       \/ id # 0 /\ Fails("permanentlyDeleteNote")
       \/ LET out == permanentlyDeleteNoteOutcome(store, policies, id)
          IN /\ store' = out.st
             /\ last' = Result("permanentlyDeleteNote", id, out.err,
                               NoRowsReturned)
             \* ids whose permanent delete was reported done on a stored row
             /\ purged' = IF out.err = NoError /\ id \in DOMAIN store
                          THEN purged \cup {id} ELSE purged
             /\ UNCHANGED <<nextId, now, policies, home, rest>>

RestoreNote ==
    \E id \in IdInputs :
       \/ id # 0 /\ Fails("restoreNote")
       \/ LET out == restoreNoteOutcome(store, policies, id)
          IN /\ store' = out.st
             /\ last' = Result("restoreNote", id, out.err,
                               RowsOf(out.st, AsSeq(out.rows)))
             /\ UNCHANGED <<nextId, now, policies, home, rest, purged>>

\* Settings, "Delete All Notes", confirmed: the handler awaits
\* deleteAllNotes(), a name the notes service does not export; the call
\* throws, the handler catches and alerts "Failed to delete notes", and no
\* request is made
HandleDeleteAllNotes ==
    /\ last' = Result("handleDeleteAllNotes", 0, NotAFunction, NoRowsReturned)
    /\ UNCHANGED <<store, nextId, now, policies, home, rest, purged>>

Next ==
    \/ ListNotes
    \/ ListDeletedNotes
    \/ GetNote
    \/ CreateNote
    \/ UpdateNote
    \/ DeleteNote
    \/ PermanentlyDeleteNote
    \/ RestoreNote
    \/ HandleDeleteAllNotes

Spec == Init /\ [][Next]_vars

\* ---------------------------------------------------------------- home screen
\* a text of n characters
Filler(n) == [k \in 1..n |-> "z"]

\* local midnight of the day the screen is used on, and the hours the week
\* and the month reach back from it
Midnight == 40 * HoursPerDay
WeekBack == WeekDays * HoursPerDay
MonthBack == MonthDays * HoursPerDay

\* the rows listNotes can return to the home screen, by id: active notes
\* created at the edges of today, of the week and of the month, with and
\* without tags, with a repeated tag, with equal titles and equal
\* timestamps, and with bodies around the length of a long note
StoredNotes ==
    <<[id |-> 1, title |-> <<"A", "b">>, body |-> <<>>, tags |-> {},
       created_at |-> Midnight, updated_at |-> Midnight, deleted_at |-> {}],
      [id |-> 2, title |-> <<"c">>, body |-> <<"x", "a", "B">>,
       tags |-> {<<<<"x">>>>},
       created_at |-> Midnight, updated_at |-> Midnight, deleted_at |-> {}],
      [id |-> 3, title |-> <<"c">>, body |-> <<>>,
       tags |-> {<<<<"a", "b">>, <<"y">>, <<"y">>>>},
       created_at |-> Midnight - WeekBack,
       updated_at |-> Midnight - WeekBack + 1, deleted_at |-> {}],
      [id |-> 4, title |-> <<"B">>, body |-> Filler(LongNoteLength),
       tags |-> {<<>>},
       created_at |-> Midnight - WeekBack - 1,
       updated_at |-> Midnight - WeekBack + 1, deleted_at |-> {}],
      [id |-> 5, title |-> <<"a", " ", "c">>,
       body |-> Filler(LongNoteLength - 1), tags |-> {<<<<"y">>>>},
       created_at |-> Midnight - MonthBack,
       updated_at |-> Midnight - MonthBack, deleted_at |-> {}],
      [id |-> 6, title |-> <<"b">>, body |-> <<>>,
       tags |-> {<<<<"x">>, <<"y">>>>},
       created_at |-> Midnight - MonthBack - 1,
       updated_at |-> Midnight - MonthBack - 1, deleted_at |-> {}]>>

\* the stored rows of a list of ids
RowsOfStored(s) == [k \in 1..Len(s) |-> StoredNotes[s[k]]]

\* what listNotes can return: at most MaxNotes of the rows, most recently
\* updated first
NoteLists ==
    UNION {{RowsOfStored(s) :
               s \in OrderedDesc(ids, [i \in DOMAIN StoredNotes |->
                                          StoredNotes[i].updated_at])} :
           ids \in {x \in SUBSET DOMAIN StoredNotes :
                       Cardinality(x) <= MaxNotes}}

\* what the user types into the search bar
Queries == {<<>>, <<" ">>, <<"a", "B">>}

\* the filters the modal can build
FilterOptions ==
    [sortBy : {"recent", "alphabetical", "mostEdited", "oldest"},
     dateFilter : {"all", "today", "thisWeek", "thisMonth"},
     selectedTags : {<<>>, <<<<"x">>>>, <<<<"x">>, <<"y">>>>},
     withTagsOnly : BOOLEAN, longNotesOnly : BOOLEAN]

\* the filter stages that f switches on
StagesOn(f) ==
    {stage \in {"dateFilter", "selectedTags", "withTagsOnly", "longNotesOnly"} :
        f[stage] # InitialFilters[stage]}

\* what the filter modal hands to handleFilterApply: every sort with at
\* most one filter stage on, and the alphabetical sort with all of them on
FilterInputs ==
    {f \in FilterOptions :
        \/ Cardinality(StagesOn(f)) <= 1
        \/ f.sortBy = "alphabetical" /\ Cardinality(StagesOn(f)) = 4
                                     /\ Len(f.selectedTags) = 2}

\* what new Date() can read: the clock never runs backwards
ClockReadings(w) == {u \in {Midnight, Midnight + 10} : u >= w}

\* the effect that follows a change of notes, searchQuery or filters:
\* applyFiltersAndSort reads the clock and sets the shown list
Rerun ==
    \E w \in ClockReadings(wall) :
       /\ wall' = w
       /\ filteredNotes' = applyFiltersAndSort(notes', searchQuery', filters', w)

\* fetchNotes, when listNotes answers
FetchNotes ==
    \E data \in NoteLists :
       /\ notes' = data
       /\ UNCHANGED <<searchQuery, filters, service, rest>>
       /\ Rerun

\* the search bar's onChangeText
SetSearchQuery ==
    \E text \in Queries :
       /\ searchQuery' = text
       /\ UNCHANGED <<notes, filters, service, rest>>
       /\ Rerun

\* handleFilterApply with newFilters out of inputs: setFilters,
\* setShowFilterModal(false)
HandleFilterApplyOf(inputs) ==
    \E newFilters \in inputs :
       /\ filters' = newFilters
       /\ showFilterModal' = FALSE
       /\ UNCHANGED <<notes, searchQuery, service, restButModal,
                      localFilters>>
       /\ Rerun

HandleFilterApply == HandleFilterApplyOf(FilterInputs)

ClearAllFilters ==
    /\ searchQuery' = <<>>
    /\ filters' = InitialFilters
    /\ UNCHANGED <<notes, service, rest>>
    /\ Rerun

HomeNext ==
    \/ FetchNotes
    \/ SetSearchQuery
    \/ HandleFilterApply
    \/ ClearAllFilters

HomeSpec == Init /\ [][HomeNext]_vars

\* the screen is mounted in the course of the day, on the deployment the
\* README sets up
StageInit ==
    /\ EmptyTable
    /\ policies = TRUE
    /\ HomeMounted
    /\ wall = Midnight + 10
    /\ RestIdle

\* ------------------------------------------------------ fetches in flight
\* what listNotes answers to a fetch of the home screen
FetchData == {RowsOfStored(s) : s \in {<<>>, <<1>>, <<6>>}}

\* fetchNotes up to its await: loading is shown and the request leaves; the
\* answer, a list or an error, is on its way
StartFetch ==
    /\ issued < MaxFetches
    /\ issued' = issued + 1
    /\ loading' = TRUE
    /\ \E answer \in [ok : {TRUE}, data : FetchData]
                        \cup [ok : {FALSE}, data : {<<>>}] :
          flights' = flights \cup {[seq |-> issued + 1] @@ answer}

\* useFocusEffect: the screen gains the focus and fetches
Focus ==
    /\ ~focused
    /\ focused' = TRUE
    /\ StartFetch
    /\ UNCHANGED <<service, restButFetching, home>>

\* the user leaves the screen; nothing tells the fetches in flight
Blur ==
    /\ focused
    /\ focused' = FALSE
    /\ UNCHANGED <<service, restButFetching, home, flights, issued, loading>>

\* pull to refresh
HandleRefresh ==
    /\ focused
    /\ StartFetch
    /\ UNCHANGED <<service, restButFetching, home, focused>>

\* `let mounted = true` of fetchNotes: the function that would clear it is
\* the value of the promise fetchNotes returns, and nobody calls it
Mounted(flight) == TRUE

\* fetchNotes after its await: the answer of a fetch arrives
Arrive ==
    \E flight \in flights :
       /\ flights' = flights \ {flight}
       /\ IF Mounted(flight)
          THEN /\ loading' = FALSE
               /\ IF flight.ok
                  THEN /\ notes' = flight.data
                       /\ UNCHANGED <<searchQuery, filters>>
                       /\ Rerun
                  ELSE UNCHANGED home
          ELSE UNCHANGED <<home, loading>>
       /\ UNCHANGED <<service, restButFetching, issued, focused>>

FetchNext ==
    \/ Focus
    \/ Blur
    \/ HandleRefresh
    \/ Arrive

FetchSpec == StageInit /\ [][FetchNext]_vars

\* ------------------------------------------------------- overlapping calls
\* patches of overlapping updateNote calls: the title alone, the body and
\* the tags, and title and body
WirePatches ==
    {[title |-> {<<"b", " ">>}, body |-> {}, tags |-> {}],
     [title |-> {}, body |-> {<<"b">>}, tags |-> {{<<<<"x">>>>}}],
     [title |-> {<<"c">>}, body |-> {<<" ", "c">>}, tags |-> {}]}

NoPatch == [title |-> {}, body |-> {}, tags |-> {}]

\* the number of calls made so far
Called == Cardinality(inflight) + Len(landed)

\* updateNote up to its await: the patch has passed the validation and the
\* request leaves
SendUpdate ==
    \E id \in DOMAIN store, patch \in WirePatches :
       /\ Called < MaxInFlight
       /\ updateNoteOutcome(store, policies, id, patch).sent
       /\ inflight' = inflight \cup {[no |-> Called + 1, op |-> "updateNote",
                                      id |-> id, patch |-> patch]}
       /\ UNCHANGED <<service, home, restButWire, landed>>

\* deleteNote up to its await
SendDelete ==
    \E id \in DOMAIN store :
       /\ Called < MaxInFlight
       /\ inflight' = inflight \cup {[no |-> Called + 1, op |-> "deleteNote",
                                      id |-> id, patch |-> NoPatch]}
       /\ UNCHANGED <<service, home, restButWire, landed>>

\* the persistence service handles one request, a single statement, and
\* the call returns or throws
Land ==
    \E request \in inflight, t \in Elapsed(now) :
       LET out == IF request.op = "updateNote"
                  THEN updateNoteOutcome(store, policies, request.id,
                                         request.patch)
                  ELSE deleteNoteOutcome(store, policies, request.id, t)
       IN /\ inflight' = inflight \ {request}
          /\ landed' = Append(landed,
                              [request |-> request, err |-> out.err,
                               overlapped |-> inflight # {request}])
          /\ store' = out.st
          /\ now' = IF request.op = "deleteNote" /\ out.st # store THEN t
                    ELSE now
          /\ last' = Result(request.op, request.id, out.err,
                            IF request.op = "updateNote"
                            THEN RowsOf(out.st, AsSeq(out.rows))
                            ELSE NoRowsReturned)
          /\ UNCHANGED <<nextId, policies, purged, home, restButWire>>

\* one note has been created and is active
OneNoteStored ==
    \E input \in CreateInputs :
       LET out == createNoteOutcome(<<>>, 1, 0, input)
       IN /\ out.err = NoError
          /\ store = out.st
          /\ nextId = 2
          /\ now = 0
          /\ last = Result("createNote", 1, NoError,
                           RowsOf(out.st, AsSeq(out.rows)))
          /\ purged = {}

WireInit ==
    /\ OneNoteStored
    /\ policies \in BOOLEAN
    /\ HomeIdle
    /\ RestIdle

WireNext ==
    \/ SendUpdate
    \/ SendDelete
    \/ Land

WireSpec == WireInit /\ [][WireNext]_vars

\* the home screen with the filter stages in every combination, under the
\* initial sort
StageInputs == {f \in FilterOptions : f.sortBy = InitialFilters.sortBy}

HandleFilterApplyStages == HandleFilterApplyOf(StageInputs)

StageNext ==
    \/ FetchNotes
    \/ SetSearchQuery
    \/ HandleFilterApplyStages

StageSpec == StageInit /\ [][StageNext]_vars

\* ------------------------------------------------- malformed timestamps
\* the rows of StoredNotes with the created_at of one of them unparsable
MalformedNotes ==
    [i \in DOMAIN StoredNotes |->
        IF i = 2 THEN [StoredNotes[i] EXCEPT !.created_at = InvalidDate]
        ELSE StoredNotes[i]]

\* note collections handed to the pipeline: up to MaxNotes + 1 of these
\* rows, most recently updated first
MalformedLists ==
    UNION {{[k \in 1..Len(s) |-> MalformedNotes[s[k]]] :
               s \in OrderedDesc(ids, [i \in DOMAIN StoredNotes |->
                                          StoredNotes[i].updated_at])} :
           ids \in {x \in SUBSET DOMAIN StoredNotes :
                       Cardinality(x) <= MaxNotes + 1}}

\* every sort with every date filter
DateSortInputs ==
    {f \in FilterOptions : StagesOn(f) \subseteq {"dateFilter"}}

\* the pipeline is handed a collection
FetchMalformed ==
    \E data \in MalformedLists :
       /\ notes' = data
       /\ filteredNotes'
             \in applyFiltersAndSortOutcomes(data, searchQuery, filters, wall)
       /\ UNCHANGED <<searchQuery, filters, wall, service, rest>>

\* the filters change and the pipeline runs again
HandleFilterApplyMalformed ==
    \E newFilters \in DateSortInputs :
       /\ filters' = newFilters
       /\ filteredNotes'
             \in applyFiltersAndSortOutcomes(notes, searchQuery, newFilters,
                                             wall)
       /\ UNCHANGED <<notes, searchQuery, wall, service, rest>>

MalformedNext ==
    \/ FetchMalformed
    \/ HandleFilterApplyMalformed

MalformedSpec == StageInit /\ [][MalformedNext]_vars

\* ------------------------------------------------------------ edit screens
\* the screens with a form: CreateNoteScreen, EditNoteScreen, with the Save
\* button of its header and its unsaved-changes dialog, and EditNoteModal,
\* with the tag list and the submit button of NoteEditor
EditScreens == {"EditNoteScreen", "EditNoteModal"}

\* titles typed into a form
TitlesTyped == {<<"c", " ">>, <<" ">>}

\* the limits of NoteEditor on a tag and on the tag list
MaxTagLength == 20
MaxTagCount == 10

\* String.prototype.split(sep)
RECURSIVE Split(_, _)
Split(s, sep) ==
    IF \A k \in DOMAIN s : s[k] # sep THEN <<s>>
    ELSE LET k == CHOOSE k \in DOMAIN s :
                     s[k] = sep /\ \A j \in 1..(k - 1) : s[j] # sep
         IN <<SubSeq(s, 1, k - 1)>> \o Split(SubSeq(s, k + 1, Len(s)), sep)

\* Array.prototype.join(sep)
RECURSIVE Join(_, _)
Join(list, sep) ==
    IF list = <<>> THEN <<>>
    ELSE IF Len(list) = 1 THEN list[1]
    ELSE list[1] \o sep \o Join(Tail(list), sep)

\* tag => tag !== tagToRemove
Without(list, tag) == SelectSeq(list, LAMBDA x : x # tag)

\* the tags field of CreateNoteScreen and EditNoteScreen: split at the
\* commas, trim, drop the empty pieces
processedTags(text) ==
    LET pieces == Split(text, ",")
    IN SelectSeq([k \in DOMAIN pieces |-> Trim(pieces[k])],
                 LAMBDA tag : Len(tag) > 0)

\* how often a label occurs in a list
Occurrences(list, tag) == Cardinality({k \in DOMAIN list : list[k] = tag})

\* JSON.stringify(a.sort()) === JSON.stringify(b.sort())
SameSorted(a, b) ==
    \A tag \in Range(a) \cup Range(b) :
       Occurrences(a, tag) = Occurrences(b, tag)

Loaded == CHOOSE r \in noteLoaded : TRUE

\* EditNoteScreen or EditNoteModal is mounted and getNote(id) has returned
\* the note: setNote, setTitle, setTagsInput; NoteEditor starts from the
\* tags of the note
LoadNote ==
    \E s \in EditScreens, id \in DOMAIN store :
       LET out == getNoteOutcome(store, policies, id)
       IN /\ screen = "none"
          /\ out.err = NoError
          /\ screen' = s
          /\ shown' = TRUE
          /\ noteLoaded' = {Row(store, id)}
          /\ titleTyped' = store[id].title
          /\ tagsInput' = IF s = "EditNoteScreen"
                          THEN Join(TagsOf(store[id]), <<",", " ">>)
                          ELSE tagsInput
          /\ editorTags' = IF s = "EditNoteModal" THEN TagsOf(store[id])
                           ELSE editorTags
          /\ last' = Result("getNote", id, NoError,
                            RowsOf(store, AsSeq(out.rows)))
          /\ UNCHANGED <<store, nextId, now, policies, purged, home,
                         restButEditing, hasUnsavedChanges, saving, dialog,
                         saveCalls, saves, tagInput>>

\* CreateNoteScreen is mounted
OpenCreate ==
    /\ screen = "none"
    /\ screen' = "CreateNoteScreen"
    /\ shown' = TRUE
    /\ UNCHANGED <<service, home, restButEditing, noteLoaded, titleTyped,
                   hasUnsavedChanges, saving, dialog, saveCalls, saves,
                   tagging>>

\* checkForChanges, with the body as it was loaded
HasChanges(t, text) ==
    \/ Trim(t) # Loaded.title
    \/ ~SameSorted(processedTags(text), TagsOf(Loaded))

\* the title is typed; EditNoteScreen then runs checkForChanges
SetTitle ==
    \E t \in TitlesTyped :
       /\ shown /\ ~dialog
       /\ titleTyped' = t
       /\ hasUnsavedChanges' = IF screen = "EditNoteScreen"
                               THEN HasChanges(t, tagsInput)
                               ELSE hasUnsavedChanges
       /\ UNCHANGED <<service, home, restButEditing, screen, shown,
                      noteLoaded, saving, dialog, saveCalls, saves, tagging>>

\* the tags both edit screens hand to updateNote: processedTags, and the
\* tags of NoteEditor without the blank ones, null when none is left
TagsSaved ==
    IF screen = "EditNoteModal"
    THEN LET kept == SelectSeq(editorTags, LAMBDA tag : Len(Trim(tag)) > 0)
         IN IF Len(kept) > 0 THEN {kept} ELSE {}
    ELSE {processedTags(tagsInput)}

\* the note the screen hands to createNote or updateNote
PatchSaved ==
    [title |-> {Trim(titleTyped)},
     body |-> {IF screen = "CreateNoteScreen" THEN <<>>
               ELSE Trim(Loaded.body)},
     tags |-> {TagsSaved}]

\* handleCreate / handleSave / onUpdate up to the await: a blank title
\* returns early, else saving (creating) is set and the service is called
SaveStarted ==
    IF Trim(titleTyped) = <<>>
    THEN UNCHANGED <<saving, saveCalls, saves>>
    ELSE /\ saving' = TRUE
         /\ saveCalls' = saveCalls \cup
               {[no |-> saves + 1,
                 op |-> IF screen = "CreateNoteScreen" THEN "createNote"
                        ELSE "updateNote",
                 id |-> IF screen = "CreateNoteScreen" THEN 0 ELSE Loaded.id,
                 patch |-> PatchSaved]}
         /\ saves' = saves + 1

\* the Save button of the header: disabled={saving}
HandleSave ==
    /\ screen = "EditNoteScreen" /\ shown /\ ~dialog
    /\ ~saving
    /\ saves < MaxSaves
    /\ SaveStarted
    /\ UNCHANGED <<service, home, restButEditing, screen, shown, noteLoaded,
                   titleTyped, hasUnsavedChanges, dialog, tagging>>

\* the submit button of NoteEditor: disabled={submitting || !title.trim()}
HandleSubmit ==
    /\ screen = "EditNoteModal" /\ shown
    /\ ~saving /\ Trim(titleTyped) # <<>>
    /\ saves < MaxSaves
    /\ SaveStarted
    /\ UNCHANGED <<service, home, restButEditing, screen, shown, noteLoaded,
                   titleTyped, hasUnsavedChanges, dialog, tagging>>

\* the button of CreateNoteScreen: disabled={!title.trim() || creating}
HandleCreate ==
    /\ screen = "CreateNoteScreen" /\ shown
    /\ ~saving /\ Trim(titleTyped) # <<>>
    /\ saves < MaxSaves
    /\ SaveStarted
    /\ UNCHANGED <<service, home, restButEditing, screen, shown, noteLoaded,
                   titleTyped, hasUnsavedChanges, dialog, tagging>>

\* the back button of the header: the dialog when there are unsaved
\* changes, else router.back()
HandleBack ==
    /\ screen = "EditNoteScreen" /\ shown /\ ~dialog
    /\ IF hasUnsavedChanges
       THEN dialog' = TRUE /\ UNCHANGED shown
       ELSE shown' = FALSE /\ UNCHANGED dialog
    /\ UNCHANGED <<service, home, restButEditing, screen, noteLoaded,
                   titleTyped, hasUnsavedChanges, saving, saveCalls, saves,
                   tagging>>

\* 'Keep Editing'
KeepEditing ==
    /\ dialog
    /\ dialog' = FALSE
    /\ UNCHANGED <<service, home, restButEditing, screen, shown, noteLoaded,
                   titleTyped, hasUnsavedChanges, saving, saveCalls, saves,
                   tagging>>

\* 'Discard Changes': router.back()
DiscardChanges ==
    /\ dialog
    /\ dialog' = FALSE
    /\ shown' = FALSE
    /\ UNCHANGED <<service, home, restButEditing, screen, noteLoaded,
                   titleTyped, hasUnsavedChanges, saving, saveCalls, saves,
                   tagging>>

\* 'Save Changes': handleSave()
SaveChanges ==
    /\ dialog
    /\ saves < MaxSaves
    /\ dialog' = FALSE
    /\ SaveStarted
    /\ UNCHANGED <<service, home, restButEditing, screen, shown, noteLoaded,
                   titleTyped, hasUnsavedChanges, tagging>>

\* the close button of EditNoteModal: router.back()
HandleClose ==
    /\ screen = "EditNoteModal" /\ shown
    /\ shown' = FALSE
    /\ UNCHANGED <<service, home, restButEditing, screen, noteLoaded,
                   titleTyped, hasUnsavedChanges, saving, dialog, saveCalls,
                   saves, tagging>>

\* what createNote receives from a call of CreateNoteScreen
NoteCreated(call) ==
    [title |-> CHOOSE x \in call.patch.title : TRUE,
     body |-> CHOOSE x \in call.patch.body : TRUE,
     tags |-> CHOOSE x \in call.patch.tags : TRUE]

\* a createNote or updateNote call returns or throws.  CreateNoteScreen: on
\* success the form is emptied and the note is opened; EditNoteScreen: on
\* success setHasUnsavedChanges(false) and router.back(); all three:
\* finally setSaving(false) (setCreating(false))
SaveSettled ==
    \E call \in saveCalls, answers \in BOOLEAN, t \in Elapsed(now) :
       LET out == IF ~answers THEN Outcome(Unreachable, store, {})
                  ELSE IF call.op = "createNote"
                  THEN createNoteOutcome(store, nextId, t, NoteCreated(call))
                  ELSE updateNoteOutcome(store, policies, call.id,
                                         call.patch)
           done == out.err = NoError
           created == done /\ call.op = "createNote"
       IN /\ t = now \/ created
          /\ saveCalls' = saveCalls \ {call}
          /\ store' = out.st
          /\ nextId' = IF created THEN nextId + 1 ELSE nextId
          /\ now' = IF created THEN t ELSE now
          /\ last' = Result(call.op,
                            IF created THEN nextId
                            ELSE IF answers THEN call.id ELSE 0,
                            out.err, RowsOf(out.st, AsSeq(out.rows)))
          /\ hasUnsavedChanges' = IF done /\ screen = "EditNoteScreen"
                                  THEN FALSE ELSE hasUnsavedChanges
          /\ shown' = IF done /\ screen # "EditNoteModal" THEN FALSE
                      ELSE shown
          /\ titleTyped' = IF created THEN <<>> ELSE titleTyped
          /\ tagsInput' = IF created THEN <<>> ELSE tagsInput
          /\ saving' = FALSE
          /\ UNCHANGED <<policies, purged, home, restButEditing, screen,
                         noteLoaded, dialog, saves, editorTags, tagInput>>

EditNext ==
    \/ LoadNote
    \/ SetTitle
    \/ HandleSave
    \/ HandleSubmit
    \/ HandleBack
    \/ KeepEditing
    \/ DiscardChanges
    \/ SaveChanges
    \/ HandleClose
    \/ SaveSettled

EditSpec == WireInit /\ [][EditNext]_vars

\* ------------------------------------------------------------------- tags
Letters == <<"a", "b", "c", "d", "e", "f", "g", "h", "i", "j", "k">>

\* a label of n letters, and a list of n labels
LabelOf(n) == [k \in 1..n |-> "a"]
Labels(n) == [k \in 1..n |-> <<Letters[k]>>]

\* texts typed into the tags field of CreateNoteScreen and EditNoteScreen:
\* two labels, one label twice, no label, a label one letter longer than
\* NoteEditor allows, and one label more than NoteEditor allows
TagTexts ==
    {<<"x", ",", " ", "y">>, <<"x", ",", "x">>, <<",", " ">>,
     LabelOf(MaxTagLength + 1), Join(Labels(MaxTagCount + 1), <<",">>)}

\* texts typed into the tag field of NoteEditor (maxLength={20}): a new
\* label, the label the note carries and a label of full length
TagInputs == {<<"y">>, <<" ", "x">>, LabelOf(MaxTagLength)}

\* the labels whose chip is pressed
TagsRemoved == {<<"x">>, <<"a">>}

\* onChangeText of the tags field
SetTagsInput ==
    \E text \in TagTexts :
       /\ screen \in {"CreateNoteScreen", "EditNoteScreen"}
       /\ shown /\ ~dialog
       /\ tagsInput' = text
       /\ hasUnsavedChanges' = IF screen = "EditNoteScreen"
                               THEN HasChanges(titleTyped, text)
                               ELSE hasUnsavedChanges
       /\ UNCHANGED <<service, home, restButEditing, screen, shown,
                      noteLoaded, titleTyped, saving, dialog, saveCalls,
                      saves, editorTags, tagInput>>

\* the clear button of CreateNoteScreen, shown while tags.trim() is not
\* empty
ClearTags ==
    /\ screen = "CreateNoteScreen" /\ shown
    /\ Trim(tagsInput) # <<>>
    /\ tagsInput' = <<>>
    /\ UNCHANGED <<service, home, restButEditing, screen, shown, noteLoaded,
                   titleTyped, hasUnsavedChanges, saving, dialog, saveCalls,
                   saves, editorTags, tagInput>>

\* removeTag of CreateNoteScreen and EditNoteScreen: the chip of a tag
RemoveTagChip ==
    \E tag \in TagsRemoved :
       LET text == Join(Without(processedTags(tagsInput), tag), <<",", " ">>)
       IN /\ screen \in {"CreateNoteScreen", "EditNoteScreen"}
          /\ shown /\ ~dialog
          /\ tag \in Range(processedTags(tagsInput))
          /\ tagsInput' = text
          /\ hasUnsavedChanges' = IF screen = "EditNoteScreen"
                                  THEN HasChanges(titleTyped, text)
                                  ELSE hasUnsavedChanges
          /\ UNCHANGED <<service, home, restButEditing, screen, shown,
                         noteLoaded, titleTyped, saving, dialog, saveCalls,
                         saves, editorTags, tagInput>>

\* the tag field of NoteEditor: editable={tags.length < 10}
SetTagInput ==
    \E text \in TagInputs :
       /\ screen = "EditNoteModal" /\ shown
       /\ Len(editorTags) < MaxTagCount
       /\ tagInput' = text
       /\ UNCHANGED <<service, home, restButEditing, screen, shown,
                      noteLoaded, titleTyped, hasUnsavedChanges, saving,
                      dialog, saveCalls, saves, tagsInput, editorTags>>

\* addTag of NoteEditor
addTag(list, text) ==
    LET newTag == Trim(text)
    IN IF /\ Len(newTag) > 0
          /\ newTag \notin Range(list)
          /\ Len(newTag) <= MaxTagLength
       THEN [tags |-> Append(list, newTag), tagInput |-> <<>>]
       ELSE [tags |-> list, tagInput |-> text]

\* the add button (disabled when tags.length >= 10) or the return key of
\* the tag field (not editable when tags.length >= 10)
AddTag ==
    /\ screen = "EditNoteModal" /\ shown
    /\ Len(editorTags) < MaxTagCount
    /\ editorTags' = addTag(editorTags, tagInput).tags
    /\ tagInput' = addTag(editorTags, tagInput).tagInput
    /\ UNCHANGED <<service, home, restButEditing, screen, shown, noteLoaded,
                   titleTyped, hasUnsavedChanges, saving, dialog, saveCalls,
                   saves, tagsInput>>

\* removeTag of NoteEditor
RemoveTag ==
    \E tag \in TagsRemoved :
       /\ screen = "EditNoteModal" /\ shown
       /\ tag \in Range(editorTags)
       /\ editorTags' = Without(editorTags, tag)
       /\ UNCHANGED <<service, home, restButEditing, screen, shown,
                      noteLoaded, titleTyped, hasUnsavedChanges, saving,
                      dialog, saveCalls, saves, tagsInput, tagInput>>

\* one note has been created and is active: it carries one tag, or one tag
\* less than NoteEditor allows
OneTaggedNoteStored ==
    \E list \in {<<<<"x">>>>, <<<<"x">>>> \o Labels(MaxTagCount - 2)} :
       LET out == createNoteOutcome(<<>>, 1, 0,
                                    [title |-> <<"a">>, body |-> <<>>,
                                     tags |-> {list}])
       IN /\ store = out.st
          /\ nextId = 2
          /\ now = 0
          /\ last = Result("createNote", 1, NoError,
                           RowsOf(out.st, AsSeq(out.rows)))
          /\ purged = {}

TagInit ==
    /\ OneTaggedNoteStored
    /\ policies = TRUE
    /\ HomeIdle
    /\ RestIdle

TagNext ==
    \/ OpenCreate
    \/ LoadNote
    \/ SetTitle
    \/ SetTagsInput
    \/ ClearTags
    \/ RemoveTagChip
    \/ SetTagInput
    \/ AddTag
    \/ RemoveTag
    \/ HandleCreate
    \/ HandleSave
    \/ HandleSubmit
    \/ SaveSettled

TagSpec == TagInit /\ [][TagNext]_vars

\* ---------------------------------------------------------------- haptics
Platforms == {"ios", "android"}

\* value.toString()
BooleanToString(value) == IF value THEN "true" ELSE "false"

\* useHaptics(defaultEnabled = true)
defaultEnabled == TRUE

\* the effect of AnimatedTabIcon for the tab that gets the focus
TabIconHaptic(os) == os = "ios"

\* the app is started: the tab bar and the first tab screen are mounted,
\* every useHaptics instance starts from defaultEnabled, and the icon of
\* the focused tab runs its effect
AppStart ==
    \E os \in Platforms :
       /\ ~running
       /\ starts < MaxStarts
       /\ platform \in {"none", os}
       /\ platform' = os
       /\ running' = TRUE
       /\ starts' = starts + 1
       /\ enabled' = [h \in TabScreens |-> defaultEnabled]
       /\ hasLoaded' = [h \in TabScreens |-> FALSE]
       /\ hapticFeedback' = TRUE
       /\ prefsLoaded' = FALSE
       /\ tab' = "index"
       /\ mountedTabs' = {"index"}
       /\ fired' = TabIconHaptic(os)
       /\ UNCHANGED <<service, home, restButHaptic, storage>>

\* the app is closed; the stored preference stays
AppQuit ==
    /\ running
    /\ running' = FALSE
    /\ mountedTabs' = {}
    /\ fired' = FALSE
    /\ UNCHANGED <<service, home, restButHaptic, storage, enabled, hasLoaded,
                   hapticFeedback, prefsLoaded, tab, platform, starts>>

\* loadHapticPreference of the useHaptics instance of a mounted screen:
\* getItem answers, or throws
LoadHapticPreference ==
    \E h \in mountedTabs, answers \in BOOLEAN :
       /\ running
       /\ ~hasLoaded[h]
       /\ enabled' = [enabled EXCEPT
                         ![h] = IF ~answers THEN @
                                ELSE IF storage # {} THEN storage = {"true"}
                                ELSE defaultEnabled]
       /\ hasLoaded' = [hasLoaded EXCEPT ![h] = TRUE]
       /\ fired' = FALSE
       /\ UNCHANGED <<service, home, restButHaptic, storage, hapticFeedback,
                      prefsLoaded, tab, mountedTabs, platform, running,
                      starts>>

\* loadPreferences of the Settings screen
LoadPreferences ==
    /\ running
    /\ "settings" \in mountedTabs
    /\ ~prefsLoaded
    /\ prefsLoaded' = TRUE
    /\ hapticFeedback' = IF storage # {} THEN storage = {"true"}
                         ELSE hapticFeedback
    /\ fired' = FALSE
    /\ UNCHANGED <<service, home, restButHaptic, storage, enabled, hasLoaded,
                   tab, mountedTabs, platform, running, starts>>

\* a tab of the tab bar is pressed: its screen is mounted at its first
\* focus, and its icon runs the effect
PressTab ==
    \E t \in TabScreens :
       /\ running
       /\ t # tab
       /\ tab' = t
       /\ mountedTabs' = mountedTabs \cup {t}
       /\ fired' = TabIconHaptic(platform)
       /\ UNCHANGED <<service, home, restButHaptic, storage, enabled,
                      hasLoaded, hapticFeedback, prefsLoaded, platform,
                      running, starts>>

\* a function of useHaptics: if (!enabled) return
HapticFires(h) == enabled[h]

\* a Pressable of the focused screen whose onPressIn calls a function of
\* useHaptics
PressIn ==
    /\ running
    /\ fired' = HapticFires(tab)
    /\ UNCHANGED <<service, home, restButHaptic, storage, enabled, hasLoaded,
                   hapticFeedback, prefsLoaded, tab, mountedTabs, platform,
                   running, starts>>

\* toggleHaptic(value) of the Settings screen, value from the switch:
\* haptics.selection(), setHapticFeedback(value), setItem (which may throw)
ToggleHaptic ==
    \E written \in BOOLEAN :
       LET value == ~hapticFeedback
       IN /\ running
          /\ tab = "settings"
          /\ fired' = HapticFires("settings")
          /\ hapticFeedback' = value
          /\ storage' = IF written THEN {BooleanToString(value)} ELSE storage
          /\ UNCHANGED <<service, home, restButHaptic, enabled, hasLoaded,
                         prefsLoaded, tab, mountedTabs, platform, running,
                         starts>>

HapticNext ==
    \/ AppStart
    \/ AppQuit
    \/ LoadHapticPreference
    \/ LoadPreferences
    \/ PressTab
    \/ PressIn
    \/ ToggleHaptic

HapticSpec == StageInit /\ [][HapticNext]_vars

\* ------------------------------------------------------------ filter modal
\* the options of the modal that are pressed
SortOptionsPressed == {"recent", "alphabetical"}
DateOptionsPressed == {"all", "today"}

\* what fetchNotes has put on the home screen: a note with the tag x and a
\* long note without tags
ModalLists == {RowsOfStored(<<2, 4>>)}

\* allTags: the tags of the notes, each once
RECURSIVE allTags(_)
allTags(ns) ==
    IF ns = <<>> THEN <<>>
    ELSE LET before == allTags(SubSeq(ns, 1, Len(ns) - 1))
         IN before \o SelectSeq(TagsOf(ns[Len(ns)]),
                                LAMBDA tag : tag \notin Range(before))

\* fetchNotes, when listNotes answers, the modal being hidden
FetchShown ==
    \E data \in ModalLists :
       /\ ~showFilterModal
       /\ notes' = data
       /\ UNCHANGED <<searchQuery, filters, service, rest>>
       /\ Rerun

\* variant: the modal is shown with the local filters it was left with
HandleFilterPressStale ==
    /\ ~showFilterModal
    /\ showFilterModal' = TRUE
    /\ UNCHANGED <<service, home, restButModal, localFilters>>

\* handleFilterPress: the modal becomes visible and its effect on [visible,
\* currentFilters] sets the local filters to the applied ones
HandleFilterPress ==
    /\ ~showFilterModal
    /\ showFilterModal' = TRUE
    /\ localFilters' = filters
    /\ UNCHANGED <<service, home, restButModal>>

\* a sort option is pressed
SetSortBy ==
    \E option \in SortOptionsPressed :
       /\ showFilterModal
       /\ localFilters' = [localFilters EXCEPT !.sortBy = option]
       /\ UNCHANGED <<service, home, restButModal, showFilterModal>>

\* a date option is pressed
SetDateFilter ==
    \E option \in DateOptionsPressed :
       /\ showFilterModal
       /\ localFilters' = [localFilters EXCEPT !.dateFilter = option]
       /\ UNCHANGED <<service, home, restButModal, showFilterModal>>

\* toggleTag: the chip of an available tag is pressed
ToggleTag ==
    \E tag \in Range(allTags(notes)) :
       /\ showFilterModal
       /\ localFilters' =
             [localFilters EXCEPT
                 !.selectedTags = IF tag \in Range(@)
                                  THEN SelectSeq(@, LAMBDA t : t # tag)
                                  ELSE Append(@, tag)]
       /\ UNCHANGED <<service, home, restButModal, showFilterModal>>

\* the switch 'with tags only'
SetWithTagsOnly ==
    /\ showFilterModal
    /\ localFilters' = [localFilters EXCEPT !.withTagsOnly = ~@]
    /\ UNCHANGED <<service, home, restButModal, showFilterModal>>

\* the switch 'long notes only'
SetLongNotesOnly ==
    /\ showFilterModal
    /\ localFilters' = [localFilters EXCEPT !.longNotesOnly = ~@]
    /\ UNCHANGED <<service, home, restButModal, showFilterModal>>

\* handleReset
HandleReset ==
    /\ showFilterModal
    /\ localFilters' = [sortBy |-> "recent", dateFilter |-> "all",
                        selectedTags |-> <<>>, withTagsOnly |-> FALSE,
                        longNotesOnly |-> FALSE]
    /\ UNCHANGED <<service, home, restButModal, showFilterModal>>

\* handleFilterModalClose: Cancel, the close button, onRequestClose
HandleFilterModalClose ==
    /\ showFilterModal
    /\ showFilterModal' = FALSE
    /\ UNCHANGED <<service, home, restButModal, localFilters>>

\* handleApply: onApply(localFilters)
HandleApply ==
    /\ showFilterModal
    /\ HandleFilterApplyOf({localFilters})

ModalNext ==
    \/ FetchShown
    \/ HandleFilterPress
    \/ SetSortBy
    \/ SetDateFilter
    \/ ToggleTag
    \/ SetWithTagsOnly
    \/ SetLongNotesOnly
    \/ HandleReset
    \/ HandleFilterModalClose
    \/ HandleApply

ModalSpec == StageInit /\ [][ModalNext]_vars

\* ---------------------------------------------------------------- helpers
Assigned == 1..(nextId - 1)
Active(i) == i \in DOMAIN store /\ IsActive(store[i])
SoftDeleted(i) == i \in DOMAIN store /\ IsDeleted(store[i])
\* the service answered and the request passed the service's validation
Answered(r) == r.err # Unreachable /\ ~IsValidationError(r.err)
\* the content fields and the two timestamps that are not deleted_at
SameButDeletedAt(r, q) ==
    /\ r.title = q.title /\ r.body = q.body /\ r.tags = q.tags
    /\ r.created_at = q.created_at /\ r.updated_at = q.updated_at

\* ---------------------------------------------------------------- claims

\* C1: every id ever assigned is in exactly one of the states active,
\* soft-deleted, purged; a purged id is not reached by any id-based
\* operation and never becomes active or soft-deleted again.
C1_ExactlyOneState ==
    /\ DOMAIN store \subseteq Assigned
    /\ purged \subseteq Assigned
    /\ \A i \in Assigned :
          /\ Active(i) \/ SoftDeleted(i) \/ i \in purged
          /\ ~(Active(i) /\ SoftDeleted(i))
          /\ ~(Active(i) /\ i \in purged)
          /\ ~(SoftDeleted(i) /\ i \in purged)
          /\ i \in purged =>
                /\ getNoteOutcome(store, policies, i).err # NoError
                /\ \A p \in Patches :
                      updateNoteOutcome(store, policies, i, p).err # NoError
                /\ restoreNoteOutcome(store, policies, i).err # NoError
                /\ deleteNoteOutcome(store, policies, i, now).st = store

C1_Witness ==
    /\ \E i \in Assigned : SoftDeleted(i)
    /\ last.op = "getNote" /\ last.id \in purged
    /\ IsNotFoundError(last.err)

\* C2: right after a successful softDelete(id), get(id) fails with "Note not
\* found"; right after a successful restore(id), get(id) succeeds and
\* returns that note.
C2_GetAfterDeleteAndRestore ==
    /\ (last.op = "deleteNote" /\ last.err = NoError)
          => IsNotFoundError(getNoteOutcome(store, policies, last.id).err)
    /\ (last.op = "restoreNote" /\ last.err = NoError)
          => /\ getNoteOutcome(store, policies, last.id).err = NoError
             /\ getNoteOutcome(store, policies, last.id).rows = {last.id}
             /\ last.rows = <<Row(store, last.id)>>
    /\ (last.op = "getNote" /\ Answered(last) /\ SoftDeleted(last.id))
          => IsNotFoundError(last.err)
    /\ (last.op = "getNote" /\ Answered(last) /\ Active(last.id))
          => last.err = NoError /\ last.rows = <<Row(store, last.id)>>

C2_Witness ==
    /\ last.op = "restoreNote" /\ last.err = NoError
    /\ Active(last.id)

\* C3: listNotes returns no note whose deleted_at is set, listDeletedNotes
\* returns none whose deleted_at is null, and the two results partition the
\* stored (not purged) notes.
C3_ListsPartition ==
    /\ \A i \in listNotesIds(store, policies) : Active(i)
    /\ \A i \in listDeletedNotesIds(store, policies) : SoftDeleted(i)
    /\ listNotesIds(store, policies) \cap listDeletedNotesIds(store, policies)
          = {}
    /\ listNotesIds(store, policies) \cup listDeletedNotesIds(store, policies)
          = DOMAIN store
    /\ (last.op = "listNotes" /\ last.err = NoError)
          => /\ \A k \in 1..Len(last.rows) : last.rows[k].deleted_at = {}
             /\ {last.rows[k].id : k \in 1..Len(last.rows)}
                   = {i \in DOMAIN store : Active(i)}
    /\ (last.op = "listDeletedNotes" /\ last.err = NoError)
          => /\ \A k \in 1..Len(last.rows) : last.rows[k].deleted_at # {}
             /\ {last.rows[k].id : k \in 1..Len(last.rows)}
                   = {i \in DOMAIN store : SoftDeleted(i)}

C3_Witness ==
    /\ last.op = "listDeletedNotes" /\ last.err = NoError
    /\ Len(last.rows) = 1
    /\ \E i \in DOMAIN store : Active(i)

\* C4 (as claimed): softDelete(id) on an id that is already soft-deleted or
\* is not stored fails with "Note not found" and leaves the store unchanged.
C4_SoftDeleteNotIdempotent ==
    [][(/\ last'.op = "deleteNote"
        /\ Answered(last')
        /\ ~Active(last'.id))
          => IsNotFoundError(last'.err) /\ store' = store]_vars

\* C5 (as claimed): once purge(id) has removed a note, every later get,
\* update, softDelete and restore of that id fails with "Note not found".
C5_AfterPurgeNotFound ==
    (/\ last.op \in {"getNote", "updateNote", "deleteNote", "restoreNote"}
     /\ last.id \in purged
     /\ Answered(last))
       => IsNotFoundError(last.err)

\* C6 (as claimed): purge(id) on an id that is not stored fails with "Note
\* not found".
C6_PurgeMissingFails ==
    [][(/\ last'.op = "permanentlyDeleteNote"
        /\ Answered(last')
        /\ last'.id \notin DOMAIN store)
          => IsNotFoundError(last'.err)]_vars

\* C7 (as claimed): restore(id) succeeds exactly when the note is
\* soft-deleted, then clearing deleted_at; on an active or missing id it
\* fails with "Note not found" and changes nothing.
C7_RestoreExactlyWhenDeleted ==
    [][(last'.op = "restoreNote" /\ Answered(last'))
          => IF SoftDeleted(last'.id)
             THEN /\ last'.err = NoError
                  /\ store' = [store EXCEPT ![last'.id].deleted_at = {}]
             ELSE /\ IsNotFoundError(last'.err)
                  /\ store' = store]_vars

\* C8: softDelete and restore change only deleted_at of the targeted note;
\* its title, body, tags, created_at and updated_at stay, and so does every
\* other note.
C8_OnlyDeletedAtChanges ==
    [][(last'.op \in {"deleteNote", "restoreNote"})
          => /\ DOMAIN store' = DOMAIN store
             /\ \A i \in DOMAIN store :
                   /\ SameButDeletedAt(store'[i], store[i])
                   /\ i # last'.id => store'[i] = store[i]]_vars

C8_Witness ==
    /\ last.op = "restoreNote" /\ last.err = NoError
    /\ \E i \in DOMAIN store : i # last.id
    /\ \E i \in DOMAIN store : store[last.id].updated_at < store[i].created_at

\* C9 (as claimed): every successful update leaves the note with an
\* updated_at strictly later than before.
C9_UpdateAdvancesUpdatedAt ==
    [][(last'.op = "updateNote" /\ last'.err = NoError)
          => store'[last'.id].updated_at > store[last'.id].updated_at]_vars

\* C10: update on a soft-deleted or missing note changes nothing and fails;
\* when the request is valid and the service answers, it fails with "Note
\* not found".
C10_UpdateOnlyActive ==
    [][(last'.op = "updateNote" /\ ~Active(last'.id))
          => /\ store' = store
             /\ last'.err # NoError
             /\ Answered(last') => IsNotFoundError(last'.err)]_vars

C10_Witness ==
    /\ last.op = "updateNote" /\ IsNotFoundError(last.err)
    /\ SoftDeleted(last.id)

\* C11: validation precedes persistence. create with a title that trims to
\* empty, update with a provided title that trims to empty, and get, update,
\* softDelete, restore and purge with an empty id all throw a validation
\* error before any request is built and leave the store as it was; no
\* stored note has an empty or untrimmed title.
C11_ValidationPrecedesPersistence ==
    /\ \A input \in CreateInputs, t \in Elapsed(now) :
          Trim(input.title) = <<>>
             => LET out == createNoteOutcome(store, nextId, t, input)
                IN IsValidationError(out.err) /\ ~out.sent /\ out.st = store
    /\ \A id \in IdInputs, p \in Patches :
          (id = 0 \/ (p.title # {} /\ Trim(CHOOSE x \in p.title : TRUE) = <<>>))
             => LET out == updateNoteOutcome(store, policies, id, p)
                IN IsValidationError(out.err) /\ ~out.sent /\ out.st = store
    /\ \A out \in {getNoteOutcome(store, policies, 0),
                    restoreNoteOutcome(store, policies, 0),
                    permanentlyDeleteNoteOutcome(store, policies, 0)}
                      \cup {deleteNoteOutcome(store, policies, 0, t) :
                                t \in Elapsed(now)} :
          IsValidationError(out.err) /\ ~out.sent /\ out.st = store
    /\ IsValidationError(last.err) => last.rows = NoRowsReturned
    /\ \A i \in DOMAIN store :
          store[i].title # <<>> /\ Trim(store[i].title) = store[i].title

C11_Witness ==
    /\ last.op = "updateNote" /\ last.err = TitleEmpty
    /\ Active(last.id)
    /\ \E i \in DOMAIN store : Len(store[i].title) = 1

\* C12 (as claimed): get, update, softDelete and restore of an id that is
\* not in the state the operation needs are answered with "Note not found",
\* never with success and never with an error of another kind; and "Note
\* not found" is answered in no other case.
C12_NotFoundDistinguished ==
    [][(/\ last'.op \in {"getNote", "updateNote", "deleteNote", "restoreNote"}
        /\ Answered(last'))
          => (IsNotFoundError(last'.err)
                 <=> IF last'.op = "restoreNote" THEN ~SoftDeleted(last'.id)
                     ELSE ~Active(last'.id))]_vars

\* C13: create followed by get of the returned id gives the created note:
\* title and body are the trimmed inputs, tags are the input's (null when
\* omitted), deleted_at is null, and id, created_at and updated_at are those
\* create returned.
C13_CreateGetRoundTrip ==
    /\ \A input \in CreateInputs, t \in Elapsed(now) :
          (nextId <= MaxIds /\ Trim(input.title) # <<>>)
             => LET c == createNoteOutcome(store, nextId, t, input)
                    g == getNoteOutcome(c.st, policies, nextId)
                IN /\ c.err = NoError /\ g.err = NoError
                   /\ g.rows = c.rows /\ g.st = c.st
                   /\ Row(g.st, nextId)
                         = [id |-> nextId, title |-> Trim(input.title),
                            body |-> Trim(input.body), tags |-> input.tags,
                            deleted_at |-> {}, created_at |-> t,
                            updated_at |-> t]
    /\ (last.op = "createNote" /\ last.err = NoError)
          => /\ getNoteOutcome(store, policies, last.id).err = NoError
             /\ last.rows = RowsOf(store,
                    AsSeq(getNoteOutcome(store, policies, last.id).rows))
             /\ Len(last.rows) = 1
             /\ last.rows[1].id = last.id
             /\ last.rows[1].deleted_at = {}
             /\ last.rows[1].created_at = last.rows[1].updated_at
             /\ \E input \in CreateInputs :
                   /\ last.rows[1].title = Trim(input.title)
                   /\ last.rows[1].body = Trim(input.body)
                   /\ last.rows[1].tags = input.tags

C13_Witness ==
    /\ last.op = "createNote" /\ last.err = NoError
    /\ last.rows[1].title = <<"b">> /\ last.rows[1].body = <<"a">>
    /\ last.rows[1].tags # {}
    /\ policies = TRUE

\* C14 (as claimed): "Delete All Notes" of the settings screen invokes the
\* purge-all operation of the notes service, after which no note is stored:
\* listNotes and listDeletedNotes are empty.
C14_DeleteAllRemovesEverything ==
    (last.op = "handleDeleteAllNotes")
       => /\ DOMAIN store = {}
          /\ listNotesIds(store, policies) = {}
          /\ listDeletedNotesIds(store, policies) = {}

\* C15 (as claimed): the tag counts map each tag to the number of notes
\* that carry it, a note counting once for a tag it repeats; notes without
\* tags contribute nothing.
C15_TagUsageCountsNotes ==
    LET carried == UNION {Range(TagsOf(notes[k])) : k \in 1..Len(notes)}
    IN /\ DOMAIN calculateTagUsage(notes) = carried
       /\ \A tag \in carried :
             calculateTagUsage(notes)[tag]
                = Cardinality({k \in 1..Len(notes) :
                                  tag \in Range(TagsOf(notes[k]))})

\* C16 (as claimed): the shown notes are exactly the notes, among those the
\* other criteria keep, that have the search text as a substring of title
\* or body when case is ignored; an empty search text removes nothing.
C16_TextFilterAsClaimed ==
    LET Contains(text) ==
            \E k \in 0..(Len(text) - Len(searchQuery)) :
               \A j \in 1..Len(searchQuery) :
                  LowerChar(text[k + j]) = LowerChar(searchQuery[j])
    IN Range(filteredNotes)
          = {note \in Range(applyFiltersAndSort(notes, <<>>, filters, wall)) :
                Contains(note.title) \/ Contains(note.body)}

\* C16 (amended): when the search text trims to empty (it is empty or only
\* white space) the search removes no note; otherwise the shown notes are
\* exactly the notes, among those the other criteria keep, that have the
\* search text as typed as a substring of title or body when case is
\* ignored.
C16_TextFilter ==
    LET Contains(text) ==
            \E k \in 0..(Len(text) - Len(searchQuery)) :
               \A j \in 1..Len(searchQuery) :
                  LowerChar(text[k + j]) = LowerChar(searchQuery[j])
        others == Range(applyFiltersAndSort(notes, <<>>, filters, wall))
    IN Range(filteredNotes)
          = IF \A j \in 1..Len(searchQuery) : IsSpace(searchQuery[j])
            THEN others
            ELSE {note \in others :
                     Contains(note.title) \/ Contains(note.body)}

C16_Witness ==
    /\ searchQuery = <<"a", "B">>
    /\ Len(notes) = 2 /\ Len(filteredNotes) = 1
    /\ filteredNotes[1].title = <<"A", "b">>

\* C17 (as claimed): the search also matches tags: a note that the other
\* criteria keep and one of whose tags contains the search text, case
\* ignored, is shown even when its title and body do not contain it.
C17_SearchMatchesTags ==
    \A note \in Range(applyFiltersAndSort(notes, <<>>, filters, wall)) :
       (/\ Trim(searchQuery) # <<>>
        /\ \E t \in Range(TagsOf(note)) :
              includes(toLowerCase(t), toLowerCase(searchQuery)))
          => note \in Range(filteredNotes)

\* C18 (as claimed): with the clock at now, 'today' keeps exactly the notes
\* created at or after local midnight of the current day, 'thisWeek' those
\* with created_at >= now - 7*24h, 'thisMonth' those with created_at >=
\* now - 30*24h, and 'all' removes nothing.
C18_DateFilterAsClaimed ==
    LET midnight == CHOOSE m \in 0..wall : m % 24 = 0 /\ wall < m + 24
        others == Range(applyFiltersAndSort(
                      notes, searchQuery,
                      [filters EXCEPT !.dateFilter = "all"], wall))
    IN Range(filteredNotes)
          = {note \in others :
                CASE filters.dateFilter = "today"
                        -> note.created_at >= midnight
                  [] filters.dateFilter = "thisWeek"
                        -> note.created_at >= wall - 7 * 24
                  [] filters.dateFilter = "thisMonth"
                        -> note.created_at >= wall - 30 * 24
                  [] OTHER -> TRUE}

\* C18 (amended): 'today' keeps exactly the notes created at or after local
\* midnight of the current day, 'thisWeek' those with created_at >= that
\* midnight - 7*24h, 'thisMonth' those with created_at >= that midnight -
\* 30*24h, and 'all' removes nothing.
C18_DateFilter ==
    LET midnight == CHOOSE m \in 0..wall : m % 24 = 0 /\ wall < m + 24
        others == Range(applyFiltersAndSort(
                      notes, searchQuery,
                      [filters EXCEPT !.dateFilter = "all"], wall))
    IN Range(filteredNotes)
          = {note \in others :
                CASE filters.dateFilter = "today"
                        -> note.created_at >= midnight
                  [] filters.dateFilter = "thisWeek"
                        -> note.created_at >= midnight - 7 * 24
                  [] filters.dateFilter = "thisMonth"
                        -> note.created_at >= midnight - 30 * 24
                  [] OTHER -> TRUE}

C18_Witness ==
    /\ filters.dateFilter = "thisWeek"
    /\ wall % 24 # 0
    /\ Len(notes) = 2 /\ Len(filteredNotes) = 1
    /\ filteredNotes[1].created_at < wall - 7 * 24

\* C19: the tag filter has OR semantics: with a non-empty selection the
\* shown notes are exactly the notes, among those the other criteria keep,
\* whose tag list shares a tag with the selection (a note without tags is
\* dropped); with an empty selection the tag filter removes nothing.
C19_TagFilterOr ==
    LET others == Range(applyFiltersAndSort(
                      notes, searchQuery,
                      [filters EXCEPT !.selectedTags = <<>>], wall))
    IN Range(filteredNotes)
          = IF filters.selectedTags = <<>> THEN others
            ELSE {note \in others :
                     /\ note.tags # {}
                     /\ Range(TagsOf(note)) \cap Range(filters.selectedTags)
                           # {}}

C19_Witness ==
    /\ Len(filters.selectedTags) = 2
    /\ Len(notes) = 2 /\ Len(filteredNotes) = 1
    /\ \E k \in 1..2 : notes[k].tags = {}
    /\ Len(TagsOf(filteredNotes[1])) = 1

\* C20: for every sort option the shown list is a permutation of the
\* filtered notes, ordered by the key of the option (updated_at descending
\* for recent and mostEdited, created_at ascending for oldest, title for
\* alphabetical), and notes with equal keys keep the order they have in the
\* input.
C20_SortStable ==
    LET input == applyFiltersAndSort(notes, searchQuery,
                                     [filters EXCEPT !.sortBy = "none"], wall)
        Pos(note) == CHOOSE k \in 1..Len(input) : input[k] = note
        Before(a, b) ==
            CASE filters.sortBy \in {"recent", "mostEdited"}
                    -> a.updated_at > b.updated_at
              [] filters.sortBy = "oldest" -> a.created_at < b.created_at
              [] filters.sortBy = "alphabetical"
                    -> localeCompare(a.title, b.title) < 0
        SameKey(a, b) == ~Before(a, b) /\ ~Before(b, a)
    IN /\ Len(filteredNotes) = Len(input)
       /\ Range(filteredNotes) = Range(input)
       /\ \A i, j \in 1..Len(filteredNotes) :
             i < j => /\ ~Before(filteredNotes[j], filteredNotes[i])
                      /\ SameKey(filteredNotes[i], filteredNotes[j])
                            => Pos(filteredNotes[i]) < Pos(filteredNotes[j])

C20_Witness ==
    /\ filters.sortBy = "alphabetical"
    /\ Len(filteredNotes) = 2
    /\ filteredNotes[1].title = filteredNotes[2].title
    /\ filteredNotes[1].id # filteredNotes[2].id

\* C21: the filter stages are independent: the text, date, tag, tagged-only
\* and length stages applied in any order keep the same notes as the order
\* the code applies them in, so the shown list is the same.
C21_StagesIndependent ==
    LET inOrder == ApplyStages(StagesInOrder, notes, searchQuery, filters,
                               wall)
    IN /\ sortNotes(inOrder, filters.sortBy) = filteredNotes
       /\ \A order \in StageOrders :
             ApplyStages(order, notes, searchQuery, filters, wall) = inOrder

C21_Witness ==
    /\ Cardinality(StagesOn(filters)) = 3 /\ Trim(searchQuery) # <<>>
    /\ Len(notes) = 2 /\ Len(filteredNotes) = 1

\* C22: a run of the pipeline is deterministic and keeps no state: the
\* shown list is the function of the fetched notes, the search text, the
\* filters and the clock of the run, whatever runs came before, and the
\* fetched notes stay as listNotes returned them.
C22_RunIsFunctionOfInputs ==
    /\ filteredNotes
          = sortNotes(
                LongNotesOnly(
                    WithTagsOnly(
                        Tagged(filterByDate(Searched(notes, searchQuery),
                                            filters.dateFilter, wall),
                               filters),
                        filters),
                    filters),
                filters.sortBy)
    /\ notes \in NoteLists

C22_Witness ==
    /\ filters.sortBy = "alphabetical" /\ searchQuery = <<"a", "B">>
    /\ Len(notes) = 2 /\ Len(filteredNotes) = 2
    /\ filteredNotes # notes

\* C23 (as claimed): a note whose created_at is malformed is left out by
\* every date filter but 'all' and kept by 'all', and the other notes are
\* still filtered by the date filter and ordered by the selected sort.
C23_MalformedTimestamp ==
    LET Malformed(note) == note.created_at = InvalidDate
        Before(a, b) ==
            CASE filters.sortBy \in {"recent", "mostEdited"}
                    -> a.updated_at > b.updated_at
              [] filters.sortBy = "oldest" -> a.created_at < b.created_at
              [] filters.sortBy = "alphabetical"
                    -> localeCompare(a.title, b.title) < 0
    IN /\ \A note \in Range(notes) :
             Malformed(note)
                => (note \in Range(filteredNotes)
                       <=> filters.dateFilter = "all")
       /\ \A note \in Range(notes) :
             ~Malformed(note)
                => (note \in Range(filteredNotes)
                       <=> note \in Range(filterByDate(<<note>>,
                                                       filters.dateFilter,
                                                       wall)))
       /\ \A i, j \in 1..Len(filteredNotes) :
             (/\ i < j
              /\ ~Malformed(filteredNotes[i])
              /\ ~Malformed(filteredNotes[j]))
                => ~Before(filteredNotes[j], filteredNotes[i])

\* C24 (as claimed): the answer of an abandoned fetch (the screen has lost
\* the focus, or a newer fetch has been started) is discarded when it
\* arrives: it changes neither the notes of the screen nor its loading
\* flag.
C24_AbandonedFetchDiscarded ==
    [][\A flight \in flights :
          (/\ flights' = flights \ {flight}
           /\ ~focused \/ flight.seq < issued)
             => notes' = notes /\ loading' = loading]_vars

\* C25: updates in flight against the same active note all succeed, none is
\* rejected because of another, and every field of the note holds the value
\* of the update that reached the persistence service last among those that
\* set the field (a field no update set keeps its value).
C25_LastWriteWins ==
    \A id \in DOMAIN store :
       LET updates == {k \in 1..Len(landed) :
                          /\ landed[k].request.op = "updateNote"
                          /\ landed[k].request.id = id}
           Setting(field) ==
               {k \in updates : landed[k].request.patch[field] # {}}
           Latest(field) ==
               CHOOSE k \in Setting(field) : \A j \in Setting(field) : j <= k
           Written(field) ==
               CHOOSE v \in landed[Latest(field)].request.patch[field] : TRUE
       IN Active(id)
             => /\ \A k \in updates : landed[k].err = NoError
                /\ Setting("title") # {}
                      => store[id].title = Trim(Written("title"))
                /\ Setting("body") # {}
                      => store[id].body = Trim(Written("body"))
                /\ Setting("tags") # {} => store[id].tags = Written("tags")
                /\ Setting("title") = {}
                      => \E input \in CreateInputs :
                            store[id].title = Trim(input.title)
                /\ Setting("body") = {}
                      => \E input \in CreateInputs :
                            store[id].body = Trim(input.body)

C25_Witness ==
    /\ Len(landed) = 2 /\ Active(1)
    /\ landed[1].overlapped
    /\ landed[1].request.op = "updateNote"
    /\ landed[2].request.op = "updateNote"
    /\ landed[1].request.patch.body # {}
    /\ landed[2].request.patch.body = {}
    /\ landed[1].request.patch.title # landed[2].request.patch.title
    /\ landed[1].request.patch.title # {}

\* C28 (as claimed): when a softDelete and an update of the same active
\* note overlap, then after both have reached the store, in either order,
\* the note is soft-deleted; an update that reached the store after the
\* softDelete failed with "Note not found", and an update that succeeded
\* reached the store before the softDelete.
C28_DeleteUpdateInterleavings ==
    \A d, u \in 1..Len(landed) :
       (/\ inflight = {}
        /\ landed[d].request.op = "deleteNote"
        /\ landed[u].request.op = "updateNote"
        /\ landed[d].request.id = landed[u].request.id)
          => /\ SoftDeleted(landed[d].request.id)
             /\ d < u => IsNotFoundError(landed[u].err)
             /\ landed[u].err = NoError => u < d

\* C26: from one edit screen at most one updateNote request is in flight at
\* any time, and saving is true as long as one is: every way to save (the
\* Save button of the header, 'Save Changes' of the unsaved-changes dialog,
\* the submit button of the editor) is disabled or ignored while saving
C26_EditsSerialized ==
    /\ Cardinality(saveCalls) <= 1
    /\ saveCalls # {} => saving

\* C27: every tags list a screen hands to createNote or updateNote holds
\* distinct, non-empty labels of at most 20 characters, and at most 10 of
\* them
C27_TagsValidated ==
    \A call \in saveCalls :
       LET sent == CHOOSE x \in call.patch.tags : TRUE
           list == IF sent = {} THEN <<>> ELSE CHOOSE l \in sent : TRUE
       IN /\ \A j, k \in DOMAIN list : list[j] = list[k] => j = k
          /\ \A k \in DOMAIN list :
                Len(list[k]) > 0 /\ Len(list[k]) <= MaxTagLength
          /\ Len(list) <= MaxTagCount

\* C29: once 'false' is stored as the haptics preference, no later step,
\* on any screen, in the tab bar or at a later start of the app, triggers
\* the device haptics
C29_NoHapticsOnceOff == [][storage = {"false"} => ~fired']_vars

====
